---- MODULE Spec2Model ----
(***************************************************************************)
(* Model of nics_total_by_year.py: the extraction of national NICS         *)
(* background-check totals per (year, month) and per year from the text of *)
(* a multi-page report.                                                    *)
(*                                                                         *)
(* Text is modelled at the character level: a Python str is a sequence of  *)
(* one-character strings, so that the regular expressions and the string   *)
(* methods of the program are computed, not assumed.                       *)
(***************************************************************************)
EXTENDS Integers, Sequences, FiniteSets, TLC

(***************************************************************************)
(* Characters                                                              *)
(***************************************************************************)

\* \d
DigitSet == {"0", "1", "2", "3", "4", "5", "6", "7", "8", "9"}

UpperSet == {"A", "B", "C", "D", "E", "F", "G", "H", "I", "J", "K", "L", "M", "N", "O", "P", "Q", "R", "S", "T", "U", "V", "W", "X", "Y", "Z"}

LowerSet == {"a", "b", "c", "d", "e", "f", "g", "h", "i", "j", "k", "l", "m", "n", "o", "p", "q", "r", "s", "t", "u", "v", "w", "x", "y", "z"}

\* int() of one digit
DigitValue ==
    "0" :> 0 @@ "1" :> 1 @@ "2" :> 2 @@ "3" :> 3 @@ "4" :> 4 @@ "5" :> 5 @@ "6" :> 6 @@
    "7" :> 7 @@ "8" :> 8 @@ "9" :> 9

\* str.lower() of an upper-case letter
LowerOf ==
    "A" :> "a" @@ "B" :> "b" @@ "C" :> "c" @@ "D" :> "d" @@ "E" :> "e" @@ "F" :> "f" @@ "G" :> "g" @@
    "H" :> "h" @@ "I" :> "i" @@ "J" :> "j" @@ "K" :> "k" @@ "L" :> "l" @@ "M" :> "m" @@ "N" :> "n" @@
    "O" :> "o" @@ "P" :> "p" @@ "Q" :> "q" @@ "R" :> "r" @@ "S" :> "s" @@ "T" :> "t" @@ "U" :> "u" @@
    "V" :> "v" @@ "W" :> "w" @@ "X" :> "x" @@ "Y" :> "y" @@ "Z" :> "z"

\* str.upper() of a lower-case letter
UpperOf ==
    "a" :> "A" @@ "b" :> "B" @@ "c" :> "C" @@ "d" :> "D" @@ "e" :> "E" @@ "f" :> "F" @@ "g" :> "G" @@
    "h" :> "H" @@ "i" :> "I" @@ "j" :> "J" @@ "k" :> "K" @@ "l" :> "L" @@ "m" :> "M" @@ "n" :> "N" @@
    "o" :> "O" @@ "p" :> "P" @@ "q" :> "Q" @@ "r" :> "R" @@ "s" :> "S" @@ "t" :> "T" @@ "u" :> "U" @@
    "v" :> "V" @@ "w" :> "W" @@ "x" :> "X" @@ "y" :> "Y" @@ "z" :> "Z"

IsDigit(c) == c \in DigitSet

DigitVal(c) == DigitValue[c]

IsUpper(c) == c \in UpperSet

IsLower(c) == c \in LowerSet

\* [A-Za-z]
IsAlpha(c) == IsUpper(c) \/ IsLower(c)

\* str.lower() of one character; also how re.IGNORECASE compares
ToLower(c) == IF IsUpper(c) THEN LowerOf[c] ELSE c

\* str.upper() of one character
ToUpper(c) == IF IsLower(c) THEN UpperOf[c] ELSE c

\* \s (the report text holds blanks and line breaks)
IsSpace(c) == c \in {" ", "\n", "\t", "\r"}

\* \w
IsWord(c) == IsAlpha(c) \/ IsDigit(c) \/ c = "_"

\* \b at the position before s[i] (i in 1..Len(s)+1)
WordBoundary(s, i) ==
    LET before == i > 1 /\ IsWord(s[i - 1])
        after == i <= Len(s) /\ IsWord(s[i])
    IN before # after

\* s[i:].startswith(lit), i counted from 1
StartsWithAt(s, i, lit) ==
    /\ i + Len(lit) - 1 <= Len(s)
    /\ \A k \in 1..Len(lit) : s[i + k - 1] = lit[k]

\* the same under re.IGNORECASE
StartsWithAtCI(s, i, lit) ==
    /\ i + Len(lit) - 1 <= Len(s)
    /\ \A k \in 1..Len(lit) : ToLower(s[i + k - 1]) = ToLower(lit[k])

\* s.startswith(lit)
StartsWith(s, lit) == StartsWithAt(s, 1, lit)

\* lit in s
Contains(s, lit) == \E i \in 1..(Len(s) + 1) : StartsWithAt(s, i, lit)

\* the first position >= i that holds no white space: the end of \s*
RECURSIVE SkipSpaces(_, _)
SkipSpaces(s, i) ==
    IF i <= Len(s) /\ IsSpace(s[i]) THEN SkipSpaces(s, i + 1) ELSE i

\* the first position >= i that holds neither a digit nor a comma: the end of [\d,]*
RECURSIVE SkipDigitsCommas(_, _)
SkipDigitsCommas(s, i) ==
    IF i <= Len(s) /\ (IsDigit(s[i]) \/ s[i] = ",") THEN SkipDigitsCommas(s, i + 1) ELSE i

\* int(s[i:j].replace(",", "")), acc the value of the digits read so far
RECURSIVE IntOf(_, _, _, _)
IntOf(s, i, j, acc) ==
    IF i >= j THEN acc
    ELSE IF s[i] = "," THEN IntOf(s, i + 1, j, acc)
    ELSE IntOf(s, i + 1, j, 10 * acc + DigitVal(s[i]))

\* the last position <= i that holds no white space, 0 when there is none
RECURSIVE SkipSpacesBack(_, _)
SkipSpacesBack(s, i) ==
    IF i >= 1 /\ IsSpace(s[i]) THEN SkipSpacesBack(s, i - 1) ELSE i

\* str.strip(): the text between the first and the last non-blank character
Strip(s) == SubSeq(s, SkipSpaces(s, 1), SkipSpacesBack(s, Len(s)))

\* str.lower()
Lowered(s) == [i \in 1..Len(s) |-> ToLower(s[i])]

\* str.capitalize(): first character upper case, the rest lower case
Capitalize(s) == [i \in 1..Len(s) |-> IF i = 1 THEN ToUpper(s[i]) ELSE ToLower(s[i])]

\* str.splitlines() on "\n": the pieces between line breaks, without a last empty piece
RECURSIVE SplitFrom(_, _, _)
SplitFrom(s, i, start) ==
    IF i > Len(s) THEN (IF start > Len(s) THEN <<>> ELSE <<SubSeq(s, start, Len(s))>>)
    ELSE IF s[i] = "\n" THEN <<SubSeq(s, start, i - 1)>> \o SplitFrom(s, i + 1, i + 1)
    ELSE SplitFrom(s, i + 1, start)

(***************************************************************************)
(* The report: bounded inputs                                              *)
(***************************************************************************)
\* pages read from one report
MaxPages == 2

\* lines of text on one page
MaxLines == 3

\* 'Year 2020'
LineYearA == <<"Y", "e", "a", "r", " ", "2", "0", "2", "0">>

\* '  year 2019 5 5 5 5'
LineYearB == <<" ", " ", "y", "e", "a", "r", " ", "2", "0", "1", "9", " ", "5", " ", "5", " ", "5", " ", "5">>

\* 'Alabama 1 2 3 4 5 6 7 8 9 10 11 12 78'
LineRowFull == <<"A", "l", "a", "b", "a", "m", "a", " ", "1", " ", "2", " ", "3", " ", "4", " ", "5", " ", "6", " ", "7", " ", "8", " ", "9", " ", "1", "0", " ", "1", "1", " ", "1", "2", " ", "7", "8">>

\* ' Guam 7 1,0 2 3 15 '
LineRowPart == <<" ", "G", "u", "a", "m", " ", "7", " ", "1", ",", "0", " ", "2", " ", "3", " ", "1", "5", " ">>

\* 'January 1, 2025 - march 31, 2025'
LineRange == <<"J", "a", "n", "u", "a", "r", "y", " ", "1", ",", " ", "2", "0", "2", "5", " ", "-", " ", "m", "a", "r", "c", "h", " ", "3", "1", ",", " ", "2", "0", "2", "5">>

\* 'U.S. Total'
LineTotal == <<"U", ".", "S", ".", " ", "T", "o", "t", "a", "l">>

\* 'Rev February January 2021 9'
LineRev == <<"R", "e", "v", " ", "F", "e", "b", "r", "u", "a", "r", "y", " ", "J", "a", "n", "u", "a", "r", "y", " ", "2", "0", "2", "1", " ", "9">>

\* the lines a page of the report is made of
LineSet ==
    { LineYearA, LineYearB, LineRowFull, LineRowPart, LineRange, LineTotal, LineRev }

\* "\n".join(ls)
RECURSIVE JoinLines(_)
JoinLines(ls) ==
    IF ls = <<>> THEN <<>>
    ELSE IF Len(ls) = 1 THEN ls[1]
    ELSE ls[1] \o <<"\n">> \o JoinLines(Tail(ls))

\* page.extract_text() or "": the text of a page of at most MaxLines lines
PageTexts == {JoinLines(ls) : ls \in UNION {[1..n -> LineSet] : n \in 0..MaxLines}}

(***************************************************************************)
(* Regex & constants                                                       *)
(***************************************************************************)

MONTHS_ABBR == <<
    <<"J", "a", "n">>,
    <<"F", "e", "b">>,
    <<"M", "a", "r">>,
    <<"A", "p", "r">>,
    <<"M", "a", "y">>,
    <<"J", "u", "n">>,
    <<"J", "u", "l">>,
    <<"A", "u", "g">>,
    <<"S", "e", "p">>,
    <<"O", "c", "t">>,
    <<"N", "o", "v">>,
    <<"D", "e", "c">> >>

MONTHS_FULL == <<
    <<"J", "a", "n", "u", "a", "r", "y">>,
    <<"F", "e", "b", "r", "u", "a", "r", "y">>,
    <<"M", "a", "r", "c", "h">>,
    <<"A", "p", "r", "i", "l">>,
    <<"M", "a", "y">>,
    <<"J", "u", "n", "e">>,
    <<"J", "u", "l", "y">>,
    <<"A", "u", "g", "u", "s", "t">>,
    <<"S", "e", "p", "t", "e", "m", "b", "e", "r">>,
    <<"O", "c", "t", "o", "b", "e", "r">>,
    <<"N", "o", "v", "e", "m", "b", "e", "r">>,
    <<"D", "e", "c", "e", "m", "b", "e", "r">> >>

IGNORE_PREFIXES == {
    <<"N", "I", "C", "S", " ", "F", "i", "r", "e", "a", "r", "m", " ", "B", "a", "c", "k", "g", "r", "o", "u", "n", "d", " ", "C", "h", "e", "c", "k", "s">>,
    <<"M", "o", "n", "t", "h", "/", "Y", "e", "a", "r", " ", "b", "y", " ", "S", "t", "a", "t", "e">>,
    <<"S", "t", "a", "t", "e", " ", "/", " ", "T", "e", "r", "r", "i", "t", "o", "r", "y">>,
    <<"N", "O", "T", "E">>,
    <<"P", "a", "g", "e">>,
    <<"J", "a", "n", "u", "a", "r", "y", " ", "1">>,
    <<"T", "h", "e", "s", "e", " ", "s", "t", "a", "t", "i", "s", "t", "i", "c", "s">>,
    <<"T", "h", "e", "y", " ", "d", "o", " ", "n", "o", "t", " ", "r", "e", "p", "r", "e", "s", "e", "n", "t">> }

IGNORE_CONTAINS == {
    <<"S", "t", "a", "t", "e", " ", "/", " ", "T", "e", "r", "r", "i", "t", "o", "r", "y">>,
    <<"T", "o", "t", "a", "l", "s", " ", "b", "y", " ", "S", "t", "a", "t", "e">>,
    <<"T", "o", "t", "a", "l", "s", " ", "b", "y", " ", "Y", "e", "a", "r">> }

IGNORE_EXACT == {
    <<>>,
    <<"T", "o", "t", "a", "l", "s">>,
    <<"U", ".", "S", ".", " ", "T", "o", "t", "a", "l">>,
    <<"U", ".", " ", "S", ".", " ", "T", "o", "t", "a", "l">>,
    <<"U", "S", " ", "T", "o", "t", "a", "l">>,
    <<"U", ".", " ", "S", ".", " ", "T", "o", "t", "a", "l", "s">>,
    <<"U", ".", "S", ".", " ", "T", "o", "t", "a", "l", "s">> }

\* the literals of the regular expressions and of is_state_row
YEAR_WORD == <<"Y", "e", "a", "r">>

CENTURY_19 == <<"1", "9">>

CENTURY_20 == <<"2", "0">>

US_DOTTED == <<"U", ".", "S", ".">>

US_SPACED == <<"U", ".", " ", "S", ".">>

US_LOWER == <<"u", "s", " ">>

\* the value current_year holds before any year is inferred (Python's None)
None == -1

\* int() of the four digits s[i..i+3]
Num4(s, i) == IntOf(s, i, i + 4, 0)

\* \d{4} at position i
FourDigitsAt(s, i) ==
    /\ i + 3 <= Len(s)
    /\ \A k \in 0..3 : IsDigit(s[i + k])

\* YEAR_HEADER_RE = \bYear\s+(\d{4})\b, IGNORECASE, matched at position i:
\* <<year, position after the match>>, or <<>> for no match
YearHeaderAt(s, i) ==
    IF ~(WordBoundary(s, i) /\ StartsWithAtCI(s, i, YEAR_WORD)) THEN <<>>
    ELSE LET j == SkipSpaces(s, i + Len(YEAR_WORD))
         IN IF j > i + Len(YEAR_WORD) /\ FourDigitsAt(s, j) /\ WordBoundary(s, j + 4)
            THEN <<Num4(s, j), j + 4>>
            ELSE <<>>

\* YEAR_HEADER_RE.findall(s[i:]): the years of the non-overlapping matches, left to right
RECURSIVE YearHeaderFindallFrom(_, _)
YearHeaderFindallFrom(s, i) ==
    IF i > Len(s) THEN <<>>
    ELSE LET m == YearHeaderAt(s, i)
         IN IF m = <<>> THEN YearHeaderFindallFrom(s, i + 1)
            ELSE <<m[1]>> \o YearHeaderFindallFrom(s, m[2])

\* YEAR_HEADER_RE.search(s[i:]): the year of the leftmost match, None for no match
RECURSIVE YearHeaderSearchFrom(_, _)
YearHeaderSearchFrom(s, i) ==
    IF i > Len(s) THEN None
    ELSE IF YearHeaderAt(s, i) # <<>> THEN YearHeaderAt(s, i)[1]
    ELSE YearHeaderSearchFrom(s, i + 1)


\* ANY_YEAR_RE = \b(?:19|20)\d{2}\b matched at position i
AnyYearAt(s, i) ==
    /\ WordBoundary(s, i)
    /\ StartsWithAt(s, i, CENTURY_19) \/ StartsWithAt(s, i, CENTURY_20)
    /\ FourDigitsAt(s, i)
    /\ WordBoundary(s, i + 4)

\* ANY_YEAR_RE.findall(s), as integers
RECURSIVE AnyYearFindallFrom(_, _)
AnyYearFindallFrom(s, i) ==
    IF i > Len(s) THEN <<>>
    ELSE IF AnyYearAt(s, i) THEN <<Num4(s, i)>> \o AnyYearFindallFrom(s, i + 4)
    ELSE AnyYearFindallFrom(s, i + 1)

\* the month-name alternation of HEADER_RANGE_RE at position i: the number of the
\* alternative that matches (IGNORECASE), 0 for none
RECURSIVE MonthNameFrom(_, _, _)
MonthNameFrom(s, i, k) ==
    IF k > Len(MONTHS_FULL) THEN 0
    ELSE IF StartsWithAtCI(s, i, MONTHS_FULL[k]) THEN k
    ELSE MonthNameFrom(s, i, k + 1)

MonthNameAt(s, i) == MonthNameFrom(s, i, 1)

\* \s+\d{1,2},\s+(?:19|20)\d{2} at position i: the position after it, 0 for no match
DayYearAt(s, i) ==
    LET j == SkipSpaces(s, i)
        afterDay == IF j + 2 <= Len(s) /\ IsDigit(s[j]) /\ IsDigit(s[j + 1]) /\ s[j + 2] = ","
                    THEN j + 3
                    ELSE IF j + 1 <= Len(s) /\ IsDigit(s[j]) /\ s[j + 1] = ","
                    THEN j + 2
                    ELSE 0
        y == SkipSpaces(s, afterDay)
    IN IF j = i \/ afterDay = 0 \/ y = afterDay THEN 0
       ELSE IF (StartsWithAt(s, y, CENTURY_19) \/ StartsWithAt(s, y, CENTURY_20))
               /\ FourDigitsAt(s, y)
       THEN y + 4
       ELSE 0

\* HEADER_RANGE_RE matched at position i: m.group(2), the text of the second month
\* name, or <<>> for no match
HeaderRangeAt(s, i) ==
    LET k1 == MonthNameAt(s, i)
        e1 == IF k1 = 0 THEN 0 ELSE DayYearAt(s, i + Len(MONTHS_FULL[k1]))
        dash == SkipSpaces(s, e1)
        m2 == SkipSpaces(s, dash + 1)
        k2 == MonthNameAt(s, m2)
    IN IF k1 = 0 \/ e1 = 0 THEN <<>>
       ELSE IF ~(dash <= Len(s) /\ s[dash] = "-") THEN <<>>
       ELSE IF k2 = 0 THEN <<>>
       ELSE IF DayYearAt(s, m2 + Len(MONTHS_FULL[k2])) = 0 THEN <<>>
       ELSE SubSeq(s, m2, m2 + Len(MONTHS_FULL[k2]) - 1)

\* HEADER_RANGE_RE.search(s): group(2) of the leftmost match, <<>> for no match
RECURSIVE HeaderRangeSearchFrom(_, _)
HeaderRangeSearchFrom(s, i) ==
    IF i > Len(s) THEN <<>>
    ELSE IF HeaderRangeAt(s, i) # <<>> THEN HeaderRangeAt(s, i)
    ELSE HeaderRangeSearchFrom(s, i + 1)

\* the fallback loop of _infer_end_month_for_page from month i on, last_idx the
\* value the loop holds so far (0: no month name found yet)
RECURSIVE LastMonthLoop(_, _, _)
LastMonthLoop(s, i, last_idx) ==
    IF i > Len(MONTHS_FULL) THEN last_idx
    ELSE LastMonthLoop(s, i + 1, IF Contains(s, MONTHS_FULL[i]) THEN i ELSE last_idx)

LastMonthNamedIn(s) == LastMonthLoop(s, 1, 0)

\* What the three expressions, the month-name loop and splitlines() give on each page
\* text of the report, computed once: a table of the values of the operators above,
\* which the operators below read for a text it holds and compute for any other.
PageFacts ==
    [t \in PageTexts |-> [year_headers |-> YearHeaderFindallFrom(t, 1),
                          any_years |-> AnyYearFindallFrom(t, 1),
                          header_range |-> HeaderRangeSearchFrom(t, 1),
                          last_month |-> LastMonthNamedIn(t),
                          lines |-> SplitFrom(t, 1, 1)]] @@ <<>>

\* text.splitlines()
SplitLines(s) ==
    IF s \in DOMAIN PageFacts THEN PageFacts[s].lines ELSE SplitFrom(s, 1, 1)

YEAR_HEADER_findall(s) ==
    IF s \in DOMAIN PageFacts THEN PageFacts[s].year_headers ELSE YearHeaderFindallFrom(s, 1)

ANY_YEAR_findall(s) ==
    IF s \in DOMAIN PageFacts THEN PageFacts[s].any_years ELSE AnyYearFindallFrom(s, 1)

HEADER_RANGE_search(s) ==
    IF s \in DOMAIN PageFacts THEN PageFacts[s].header_range ELSE HeaderRangeSearchFrom(s, 1)

LastMonthIn(s) ==
    IF s \in DOMAIN PageFacts THEN PageFacts[s].last_month ELSE LastMonthNamedIn(s)

\* MONTH_TO_IDX.get(name, default)
MONTH_TO_IDX_get(name, default) ==
    LET ks == {k \in 1..Len(MONTHS_FULL) : MONTHS_FULL[k] = name}
    IN IF ks = {} THEN default ELSE CHOOSE k \in ks : TRUE

(***************************************************************************)
(* Helpers                                                                 *)
(***************************************************************************)
\* re.findall(r"\d[\d,]*", line[i:]) with the commas stripped, as integers
RECURSIVE NumbersFrom(_, _)
NumbersFrom(line, i) ==
    IF i > Len(line) THEN <<>>
    ELSE IF IsDigit(line[i])
    THEN LET e == SkipDigitsCommas(line, i)
         IN <<IntOf(line, i, e, 0)>> \o NumbersFrom(line, e)
    ELSE NumbersFrom(line, i + 1)

\* is_state_row without the IGNORE_PREFIXES test
StateRowTest_NoPrefixes(line) ==
    LET s == Strip(line)
    IN /\ s \notin IGNORE_EXACT
       /\ ~\E c \in IGNORE_CONTAINS : Contains(s, c)
       /\ Len(s) > 0 /\ IsAlpha(s[1])
       /\ ~(Contains(s, US_DOTTED) \/ Contains(s, US_SPACED) \/ StartsWith(Lowered(s), US_LOWER))
       /\ \E i \in 1..Len(s) : IsDigit(s[i])

\* the body of is_state_row
StateRowTest(line) ==
    LET s == Strip(line)
    IN /\ s \notin IGNORE_EXACT
       /\ ~\E p \in IGNORE_PREFIXES : StartsWith(s, p)
       /\ ~\E c \in IGNORE_CONTAINS : Contains(s, c)
       /\ Len(s) > 0 /\ IsAlpha(s[1])
       /\ ~(Contains(s, US_DOTTED) \/ Contains(s, US_SPACED) \/ StartsWith(Lowered(s), US_LOWER))
       /\ \E i \in 1..Len(s) : IsDigit(s[i])

\* What the line-level expressions give on each line of the report once stripped,
\* computed once, as PageFacts is for the page-level ones
LineFacts ==
    [l \in {Strip(x) : x \in LineSet} |-> [year_header |-> YearHeaderSearchFrom(l, 1),
                                           numbers |-> NumbersFrom(l, 1),
                                           state_row |-> StateRowTest(l)]] @@ <<>>

\* YEAR_HEADER_RE.search(s): int(m.group(1)) of the leftmost match, None for no match
YEAR_HEADER_search(s) ==
    IF s \in DOMAIN LineFacts THEN LineFacts[s].year_header ELSE YearHeaderSearchFrom(s, 1)

_numbers_in_line(line) ==
    IF line \in DOMAIN LineFacts THEN LineFacts[line].numbers ELSE NumbersFrom(line, 1)

is_state_row(line) ==
    IF line \in DOMAIN LineFacts THEN LineFacts[line].state_row ELSE StateRowTest(line)

\* max() of a non-empty list
MaxOf(xs) == CHOOSE x \in {xs[i] : i \in 1..Len(xs)} : \A j \in 1..Len(xs) : xs[j] <= x

\* the [... if int(y) >= 1998] filter
RECURSIVE PlausibleYears(_)
PlausibleYears(ys) ==
    IF ys = <<>> THEN <<>>
    ELSE (IF Head(ys) >= 1998 THEN <<Head(ys)>> ELSE <<>>) \o PlausibleYears(Tail(ys))

\* _infer_year_for_page with the two tests in the other order
_infer_year_AnyYearFirst(text, current_year) ==
    LET page_years == YEAR_HEADER_findall(text)
        any_years == PlausibleYears(ANY_YEAR_findall(text))
    IN IF any_years # <<>> THEN MaxOf(any_years)
       ELSE IF page_years # <<>> THEN page_years[Len(page_years)]
       ELSE current_year

\* _infer_year_for_page that returns None for a page without a year
_infer_year_NoCarry(text, current_year) ==
    LET page_years == YEAR_HEADER_findall(text)
        any_years == PlausibleYears(ANY_YEAR_findall(text))
    IN IF page_years # <<>> THEN page_years[Len(page_years)]
       ELSE IF any_years # <<>> THEN MaxOf(any_years)
       ELSE None

_infer_year_for_page(text, current_year) ==
    LET page_years == YEAR_HEADER_findall(text)
        any_years == PlausibleYears(ANY_YEAR_findall(text))
    IN IF page_years # <<>> THEN page_years[Len(page_years)]
       ELSE IF any_years # <<>> THEN MaxOf(any_years)
       ELSE current_year

\* _infer_end_month_for_page without .capitalize()
_infer_end_month_NoCapitalize(text, default) ==
    LET g2 == HEADER_RANGE_search(text)
    IN IF g2 # <<>> THEN MONTH_TO_IDX_get(g2, default)
       ELSE IF LastMonthIn(text) # 0 THEN LastMonthIn(text)
       ELSE default

_infer_end_month_for_page(text, default) ==
    LET g2 == HEADER_RANGE_search(text)
    IN IF g2 # <<>> THEN MONTH_TO_IDX_get(Capitalize(g2), default)
       ELSE IF LastMonthIn(text) # 0 THEN LastMonthIn(text)
       ELSE default

(***************************************************************************)
(* State                                                                   *)
(***************************************************************************)
VARIABLES
    pc,                 \* where main() is: "main", "pages", "lines", "totals", "report", "exit"
    exit_status,        \* the status the process ended with, None while it runs
    stdout,             \* what main() printed, in order
    monthly,            \* year -> [12 monthly sums]
    current_year,       \* Optional[int]
    current_end_month,
    pages_read,         \* pages of pdf.pages consumed so far
    text,               \* text of the page being processed
    li,                 \* position of the for loop in text.splitlines(), from 1
    monthly_df,         \* the frame extract_monthlies_by_year returns, a list of rows
    yearly_df,          \* the frame extract_totals_by_year returns, a list of rows
    accepted,           \* history: the rows accumulated so far, with their year and end month
    last_header         \* history: year of the latest "Year NNNN" line read, None before one

vars == << pc, exit_status, stdout, monthly, current_year, current_end_month,
           pages_read, text, li, monthly_df, yearly_df, accepted, last_header >>

Init ==
    /\ pc = "main"
    /\ exit_status = None
    /\ stdout = <<>>
    /\ monthly = <<>>
    /\ current_year = None
    /\ current_end_month = 12
    /\ pages_read = 0
    /\ text = <<>>
    /\ li = 1
    /\ monthly_df = <<>>
    /\ yearly_df = <<>>
    /\ accepted = <<>>
    /\ last_header = None

(***************************************************************************)
(* Core extractors                                                         *)
(***************************************************************************)
\* line 124 without the inline reset: no line is taken for a year header
HeaderMatch_Never(line) == None

\* line 124: m = YEAR_HEADER_RE.search(line), as the year of the match or None
HeaderMatch(line) == YEAR_HEADER_search(line)

\* nums[-(need - 1):]: the slice taken one token too far right, grand total included
MonthsVals_WithTotal(nums, need) == SubSeq(nums, Len(nums) - need + 2, Len(nums))

\* nums[-need:-1] for len(nums) >= need
MonthsVals(nums, need) == SubSeq(nums, Len(nums) - need + 1, Len(nums) - 1)

\* lines 144-148 with "=" for "+=": the month values replace the sums
Accumulate_Overwrite(m, year, months_vals, end_month) ==
    LET base == IF year \in DOMAIN m THEN m[year] ELSE [i \in 1..12 |-> 0]
        sums == [i \in 1..12 |-> IF i <= end_month THEN months_vals[i] ELSE base[i]]
    IN [y \in DOMAIN m \cup {year} |-> IF y = year THEN sums ELSE m[y]]

\* lines 144-148 with the months after end_month filled with the last reported value
Accumulate_CarryLast(m, year, months_vals, end_month) ==
    LET base == IF year \in DOMAIN m THEN m[year] ELSE [i \in 1..12 |-> 0]
        sums == [i \in 1..12 |-> IF i <= end_month THEN base[i] + months_vals[i]
                                 ELSE base[i] + months_vals[end_month]]
    IN [y \in DOMAIN m \cup {year} |-> IF y = year THEN sums ELSE m[y]]

\* lines 144-148: create the year's 12 buckets when missing, add the month values
Accumulate(m, year, months_vals, end_month) ==
    LET base == IF year \in DOMAIN m THEN m[year] ELSE [i \in 1..12 |-> 0]
        sums == [i \in 1..12 |-> IF i <= end_month THEN base[i] + months_vals[i] ELSE base[i]]
    IN [y \in DOMAIN m \cup {year} |-> IF y = year THEN sums ELSE m[y]]

\* sorted(keys)
RECURSIVE SortedSeq(_)
SortedSeq(S) ==
    IF S = {} THEN <<>>
    ELSE LET lo == CHOOSE x \in S : \A y \in S : x <= y
         IN <<lo>> \o SortedSeq(S \ {lo})

\* the rows list built by the loops of lines 151-159
RECURSIVE FlattenRows(_, _)
FlattenRows(m, years) ==
    IF years = <<>> THEN <<>>
    ELSE [i \in 1..12 |-> [year |-> Head(years), month |-> i,
                           month_name |-> MONTHS_ABBR[i],
                           total_background_checks |-> m[Head(years)][i]]]
         \o FlattenRows(m, Tail(years))

\* DataFrame.sort_values(["year", "month"]).reset_index(drop=True): insertion of each
\* row after the rows that are not greater
RowLE(a, b) == a.year < b.year \/ (a.year = b.year /\ a.month <= b.month)

RECURSIVE InsertRow(_, _)
InsertRow(sorted, r) ==
    IF sorted = <<>> THEN <<r>>
    ELSE IF RowLE(Head(sorted), r) THEN <<Head(sorted)>> \o InsertRow(Tail(sorted), r)
    ELSE <<r>> \o sorted

RECURSIVE SortRows(_)
SortRows(rows) ==
    IF rows = <<>> THEN <<>>
    ELSE InsertRow(SortRows(SubSeq(rows, 1, Len(rows) - 1)), rows[Len(rows)])

\* the value extract_monthlies_by_year returns for a non-empty accumulator
MonthlyFrame(m) == SortRows(FlattenRows(m, SortedSeq(DOMAIN m)))

\* Series.sum() that leaves the December rows out
RECURSIVE SumColumn_SkipDecember(_, _)
SumColumn_SkipDecember(df, year) ==
    IF df = <<>> THEN 0
    ELSE (IF Head(df).year = year /\ Head(df).month < 12
          THEN Head(df).total_background_checks ELSE 0)
         + SumColumn_SkipDecember(Tail(df), year)

\* Series.sum() over the rows of one group
RECURSIVE SumColumn(_, _)
SumColumn(df, year) ==
    IF df = <<>> THEN 0
    ELSE (IF Head(df).year = year THEN Head(df).total_background_checks ELSE 0)
         + SumColumn(Tail(df), year)

\* groupby("year", as_index=False)["total_background_checks"].sum()
\*   .assign(basis="sum_of_months").sort_values("year").reset_index(drop=True)
YearlyFrame(df) ==
    LET years == SortedSeq({df[i].year : i \in 1..Len(df)})
    IN [k \in 1..Len(years) |-> [year |-> years[k],
                                 total_background_checks |-> SumColumn(df, years[k]),
                                 basis |-> "sum_of_months"]]

(***************************************************************************)
(* CLI and the page loop, one action per step of main()                    *)
(***************************************************************************)
\* lines 185-192: the argument and the file are checked
CheckArgs ==
    /\ pc = "main"
    /\ \E has_arg \in BOOLEAN, file_exists \in BOOLEAN :
         IF ~has_arg
         THEN /\ stdout' = Append(stdout, "Usage")
              /\ exit_status' = 1
              /\ pc' = "exit"
         ELSE IF ~file_exists
         THEN /\ stdout' = Append(stdout, "File not found")
              /\ exit_status' = 1
              /\ pc' = "exit"
         ELSE /\ pc' = "pages"
              /\ UNCHANGED << stdout, exit_status >>
    /\ UNCHANGED << monthly, current_year, current_end_month, pages_read, text, li,
                    monthly_df, yearly_df, accepted, last_header >>

\* lines 115-118: the next page is read and its year and end month are inferred
NextPage ==
    /\ pc = "pages"
    /\ pages_read < MaxPages
    /\ \E t \in PageTexts :
         /\ text' = t
         /\ current_year' = _infer_year_for_page(t, current_year)
         /\ current_end_month' = _infer_end_month_for_page(t, current_end_month)
    /\ li' = 1
    /\ pages_read' = pages_read + 1
    /\ pc' = "lines"
    /\ UNCHANGED << exit_status, stdout, monthly, monthly_df, yearly_df, accepted,
                    last_header >>

\* lines 120-148: one iteration of the loop over text.splitlines()
ProcessLine ==
    /\ pc = "lines"
    /\ li <= Len(SplitLines(text))
    /\ LET line == Strip(SplitLines(text)[li])
           m == HeaderMatch(line)
           nums == _numbers_in_line(line)
           need == current_end_month + 1
       IN IF m # None
          THEN /\ current_year' = m
               /\ last_header' = m
               /\ UNCHANGED << monthly, accepted >>
          ELSE IF current_year = None \/ ~is_state_row(line)
          THEN UNCHANGED << current_year, last_header, monthly, accepted >>
          ELSE IF Len(nums) < need
          THEN UNCHANGED << current_year, last_header, monthly, accepted >>
          ELSE IF Len(MonthsVals(nums, need)) # current_end_month
          THEN UNCHANGED << current_year, last_header, monthly, accepted >>
          ELSE /\ monthly' = Accumulate(monthly, current_year, MonthsVals(nums, need),
                                        current_end_month)
               /\ accepted' = Append(accepted, [year |-> current_year,
                                                end_month |-> current_end_month,
                                                line |-> line,
                                                page |-> pages_read,
                                                header |-> last_header])
               /\ UNCHANGED << current_year, last_header >>
    /\ li' = li + 1
    /\ UNCHANGED << pc, exit_status, stdout, current_end_month, pages_read, text,
                    monthly_df, yearly_df >>

\* the loop over the lines of the page is exhausted; text and the loop position are
\* not read again before line 116 assigns the next page's
EndPage ==
    /\ pc = "lines"
    /\ li > Len(SplitLines(text))
    /\ pc' = "pages"
    /\ text' = <<>>
    /\ li' = 1
    /\ UNCHANGED << exit_status, stdout, monthly, current_year, current_end_month,
                    pages_read, monthly_df, yearly_df, accepted, last_header >>

\* lines 150-160 (called at line 195): pdf.pages is exhausted and the frame is built.
\* With no row accumulated, pd.DataFrame([]) has no columns and
\* sort_values(["year", "month"]) raises KeyError, which nothing catches: the
\* interpreter prints the traceback and ends with status 1.
EndOfPdf ==
    /\ pc = "pages"
    /\ IF DOMAIN monthly = {}
       THEN /\ exit_status' = 1
            /\ pc' = "exit"
            /\ UNCHANGED monthly_df
       ELSE /\ monthly_df' = MonthlyFrame(monthly)
            /\ pc' = "totals"
            /\ UNCHANGED exit_status
    /\ UNCHANGED << stdout, monthly, current_year, current_end_month, pages_read, text,
                    li, yearly_df, accepted, last_header >>

\* lines 163-178 (called at line 196): the same file is extracted again, which gives
\* the same frame, and its rows are grouped by year
extract_totals_by_year ==
    /\ pc = "totals"
    /\ yearly_df' = (IF monthly_df = <<>> THEN <<>> ELSE YearlyFrame(monthly_df))
    /\ pc' = "report"
    /\ UNCHANGED << exit_status, stdout, monthly, current_year, current_end_month,
                    pages_read, text, li, monthly_df, accepted, last_header >>

\* lines 198-219: the previews are printed, the CSV files written, main() returns
Report ==
    /\ pc = "report"
    /\ stdout' = stdout
                 \o <<IF yearly_df # <<>> THEN "=== NATIONAL TOTALS BY YEAR ==="
                      ELSE "No year totals found.">>
                 \o <<IF monthly_df # <<>> THEN "=== NATIONAL TOTALS BY YEAR-MONTH ==="
                      ELSE "No monthly totals found.">>
                 \o <<"Wrote">>
    /\ exit_status' = 0
    /\ pc' = "exit"
    /\ UNCHANGED << monthly, current_year, current_end_month, pages_read, text, li,
                    monthly_df, yearly_df, accepted, last_header >>

Next ==
    \/ CheckArgs
    \/ NextPage
    \/ ProcessLine
    \/ EndPage
    \/ EndOfPdf
    \/ extract_totals_by_year
    \/ Report

Spec == Init /\ [][Next]_vars

(***************************************************************************)
(* Properties                                                              *)
(***************************************************************************)
\* the for loop is at a line of the page
AtLine == pc = "lines" /\ li <= Len(SplitLines(text))

\* the stripped line the loop is at
CurLine == Strip(SplitLines(text)[li])

\* the stripped line the loop has just processed
PrevLine == Strip(SplitLines(text)[li - 1])

\* the sum bucket of (year y, month k) in accumulator m, 0 for a year it does not hold
Bucket(m, y, k) == IF y \in DOMAIN m THEN m[y][k] ELSE 0

\* the elements of a sequence
Range(s) == {s[i] : i \in 1..Len(s)}

\* the greatest element of a non-empty set of integers
MaxIn(S) == CHOOSE x \in S : \A y \in S : y <= x

\* the row was taken by the loop: a year is known, the line is no year header and
\* is_state_row accepts it
Accepted(line) ==
    /\ current_year # None
    /\ YEAR_HEADER_search(line) = None
    /\ is_state_row(line)

\* the month-k value of an accumulated row: with end month N the N tokens before the
\* last are months 1..N; a month after N has no value
MonthValue(e, k) ==
    LET nums == _numbers_in_line(e.line)
    IN IF k <= e.end_month THEN nums[Len(nums) - 1 - e.end_month + k] ELSE 0

\* the sum of the month-k values of the rows of log accumulated under year y
RECURSIVE SumOfRows(_, _, _)
SumOfRows(log, y, k) ==
    IF log = <<>> THEN 0
    ELSE (IF Head(log).year = y THEN MonthValue(Head(log), k) ELSE 0)
         + SumOfRows(Tail(log), y, k)

\* the rows of the monthly frame for (year y, month k)
FrameRows(y, k) == {i \in 1..Len(monthly_df) : monthly_df[i].year = y /\ monthly_df[i].month = k}

\* the value the monthly frame reports for (y, k)
FrameBucket(y, k) == monthly_df[CHOOSE i \in FrameRows(y, k) : TRUE].total_background_checks

RECURSIVE SumFrameMonths(_, _)
SumFrameMonths(y, k) == IF k = 0 THEN 0 ELSE FrameBucket(y, k) + SumFrameMonths(y, k - 1)

\* both frames have been returned to main()
FramesBuilt == pc = "report" \/ (pc = "exit" /\ exit_status = 0)

\* C1: every year of the yearly output has a total equal to the sum of that year's 12
\* monthly buckets of the monthly output (one bucket per month, unreported months 0),
\* and both outputs hold the same years.
C1_YearlyIsSumOfMonths ==
    FramesBuilt =>
        /\ {yearly_df[i].year : i \in 1..Len(yearly_df)}
             = {monthly_df[i].year : i \in 1..Len(monthly_df)}
        /\ \A i \in 1..Len(yearly_df) :
             /\ \A k \in 1..12 : Cardinality(FrameRows(yearly_df[i].year, k)) = 1
             /\ yearly_df[i].total_background_checks = SumFrameMonths(yearly_df[i].year, 12)

\* two years were output, one of them with rows in all 12 months
C1_Witness ==
    /\ pc = "exit" /\ exit_status = 0
    /\ Len(yearly_df) >= 2
    /\ \E i \in 1..Len(yearly_df) : FrameBucket(yearly_df[i].year, 12) > 0

\* C2: at any point of the run the bucket of (y, m) is the sum, over every row
\* accumulated under y on any page so far, of that row's month-m value.
C2_BucketIsSumOfRows ==
    \A y \in DOMAIN monthly \cup {accepted[i].year : i \in 1..Len(accepted)} :
        \A k \in 1..12 : Bucket(monthly, y, k) = SumOfRows(accepted, y, k)

\* one year has rows accumulated on two different pages
C2_Witness ==
    \E i, j \in 1..Len(accepted) :
        /\ accepted[i].year = accepted[j].year
        /\ accepted[i].page # accepted[j].page

\* the stripped line is in the exact-match ignore set or starts with an ignore prefix
Ignored(line) == line \in IGNORE_EXACT \/ \E p \in IGNORE_PREFIXES : StartsWith(line, p)

\* C3: processing an ignored line changes no bucket, whatever its digits, the current
\* year and the end month.
C3_IgnoredNeverCounted == [][(AtLine /\ Ignored(CurLine)) => monthly' = monthly]_vars

\* an ignored line that starts with a letter and carries enough numbers for the page's
\* end month has been processed while a year was known
C3_Witness ==
    /\ pc = "lines" /\ li > 1
    /\ Ignored(PrevLine)
    /\ current_year # None
    /\ IsAlpha(PrevLine[1])
    /\ Len(_numbers_in_line(PrevLine)) >= current_end_month + 1

\* the rows accumulated under year y
RowsOf(y) == {i \in 1..Len(accepted) : accepted[i].year = y}

C4_State ==
    \A y \in DOMAIN monthly : \A n \in 1..11 :
        (RowsOf(y) # {} /\ \A i \in RowsOf(y) : accepted[i].end_month = n) =>
            /\ DOMAIN monthly[y] = 1..12
            /\ \A k \in (n + 1)..12 : monthly[y][k] = 0
            /\ FramesBuilt =>
                 \A k \in 1..12 : /\ Cardinality(FrameRows(y, k)) = 1
                                  /\ k > n => FrameBucket(y, k) = 0

C4_Step ==
    (AtLine /\ current_end_month < 12) =>
        \A y \in DOMAIN monthly' : \A k \in (current_end_month + 1)..12 :
            Bucket(monthly', y, k) = Bucket(monthly, y, k)

\* C4: a row processed on a page with end month N < 12 leaves the buckets of months
\* N+1..12 as they were, and a year whose rows all come from pages with end month N
\* is output with 12 month entries, those of months N+1..12 being 0.
C4_PartialYearZeroFill == []C4_State /\ [][C4_Step]_vars

\* a year whose rows all have end month 3 was output, its March bucket positive
C4_Witness ==
    /\ pc = "exit" /\ exit_status = 0
    /\ \E y \in DOMAIN monthly :
         /\ RowsOf(y) # {}
         /\ \A i \in RowsOf(y) : accepted[i].end_month = 3
         /\ FrameBucket(y, 3) > 0
         /\ FrameBucket(y, 4) = 0

\* the run ended after extraction was started and no row was accumulated
NoTotalsExit ==
    /\ pc = "exit"
    /\ DOMAIN monthly = {}
    /\ "Usage" \notin Range(stdout)
    /\ "File not found" \notin Range(stdout)

\* C5: when extraction yields no totals the program ends with exit status 2.
C5_NoTotalsExitsTwo == NoTotalsExit => exit_status = 2

\* the year C6 gives a page with text t read when the year was prev
C6_Expected(t, prev) ==
    LET markers == YEAR_HEADER_findall(t)
        plausible == {y \in Range(ANY_YEAR_findall(t)) : y >= 1998}
    IN IF markers # <<>> THEN markers[Len(markers)]
       ELSE IF plausible # {} THEN MaxIn(plausible)
       ELSE prev

\* C6: the year inferred for a page is the year of its "Year NNNN" marker (the last
\* one when it has several), else the greatest plausible 4-digit year in its text,
\* else the year carried over from the page before (None when there is none).
C6_PageYear ==
    [][(pc = "pages" /\ pc' = "lines") => current_year' = C6_Expected(text', current_year)]_vars

\* a page without a marker and with two different plausible years has been read
C6_Witness ==
    /\ pc = "lines" /\ li = 1
    /\ YEAR_HEADER_findall(text) = <<>>
    /\ Cardinality({y \in Range(ANY_YEAR_findall(text)) : y >= 1998}) >= 2
    /\ current_year = MaxIn({y \in Range(ANY_YEAR_findall(text)) : y >= 1998})

\* the months whose name the text mentions
MonthsMentioned(t) == {k \in 1..12 : Contains(t, MONTHS_FULL[k])}

\* the end month C7 gives a page with text t read when the end month was prev
C7_Expected(t, prev) ==
    LET g2 == HEADER_RANGE_search(t)
    IN IF g2 # <<>>
       THEN CHOOSE k \in 1..12 : Lowered(MONTHS_FULL[k]) = Lowered(g2)
       ELSE IF MonthsMentioned(t) # {} THEN MaxIn(MonthsMentioned(t))
       ELSE prev

\* C7: the end month inferred for a page is the second month of its date-range
\* header, else the latest month named on it, else the end month of the page before
\* (12 for the first page); it is always in 1..12.
C7_PageEndMonth ==
    /\ [](current_end_month \in 1..12)
    /\ [][(pc = "pages" /\ pc' = "lines") =>
            current_end_month' = C7_Expected(text', current_end_month)]_vars

\* a second page that names no month was read with the end month 3 of the first
C7_Witness ==
    /\ pc = "lines" /\ li = 1 /\ pages_read = 2
    /\ HEADER_RANGE_search(text) = <<>>
    /\ MonthsMentioned(text) = {}
    /\ Len(text) > 0
    /\ current_end_month = 3

C8_Step ==
    (AtLine /\ Accepted(CurLine)) =>
        LET nums == _numbers_in_line(CurLine)
            n == current_end_month
        IN IF Len(nums) < n + 1 THEN monthly' = monthly
           ELSE /\ DOMAIN monthly' = DOMAIN monthly \cup {current_year}
                /\ \A y \in DOMAIN monthly : y # current_year => monthly'[y] = monthly[y]
                /\ \A k \in 1..12 :
                     monthly'[current_year][k] =
                       Bucket(monthly, current_year, k)
                       + (IF k <= n THEN nums[Len(nums) - 1 - n + k] ELSE 0)

\* C8: an accepted row with fewer than N+1 integer tokens changes no bucket; otherwise
\* the N tokens before the last are added, in order, to months 1..N of the current
\* year, and neither the last token nor any earlier one is added to a bucket.
C8_RowTokens == [][C8_Step]_vars

\* a row with more than N+1 tokens was accumulated
C8_Witness ==
    /\ Len(accepted) > 0
    /\ LET e == accepted[Len(accepted)]
       IN Len(_numbers_in_line(e.line)) > e.end_month + 1

\* the year of the nearest year-header line among lines 1..i of the page, None for none
RECURSIVE NearestHeader(_, _)
NearestHeader(ls, i) ==
    IF i = 0 THEN None
    ELSE IF YEAR_HEADER_search(Strip(ls[i])) # None THEN YEAR_HEADER_search(Strip(ls[i]))
    ELSE NearestHeader(ls, i - 1)

C9_Step ==
    AtLine =>
        /\ YEAR_HEADER_search(CurLine) # None => (monthly' = monthly /\ accepted' = accepted)
        /\ (Len(accepted') > Len(accepted) /\ NearestHeader(SplitLines(text), li - 1) # None) =>
             LET h == NearestHeader(SplitLines(text), li - 1)
             IN /\ accepted'[Len(accepted')].year = h
                /\ h \in DOMAIN monthly'
                /\ \A y \in DOMAIN monthly' \ {h} : y \in DOMAIN monthly /\ monthly'[y] = monthly[y]

C10_State ==
    /\ current_year = None => DOMAIN monthly = {}
    /\ \A y \in DOMAIN monthly :
         /\ DOMAIN monthly[y] = 1..12
         /\ \A k \in 1..12 : monthly[y][k] \in Nat

C10_Step ==
    /\ current_year # None => current_year' # None
    /\ (AtLine /\ current_year = None) => monthly' = monthly
    /\ \A y \in DOMAIN monthly' \ DOMAIN monthly : y = current_year /\ y # None

\* C10: while the current year is unknown no line changes the accumulator, which is
\* empty; a known current year never becomes unknown; every key of the accumulator
\* was the current year when it was added and maps to 12 non-negative buckets.
C10_YearKnownForGood == []C10_State /\ [][C10_Step]_vars

\* a second page without any year was read with the year carried over, rows counted
C10_Witness ==
    /\ pc = "lines" /\ li = 1 /\ pages_read = 2
    /\ YEAR_HEADER_findall(text) = <<>>
    /\ ANY_YEAR_findall(text) = <<>>
    /\ current_year # None
    /\ DOMAIN monthly # {}

====
